---- MODULE Spec2Model ----
(***************************************************************************)
(* Model of ricexpro.py: a loop that calls main(gene); main opens a        *)
(* browser session, searches RiceXPro for the gene, and on a hit downloads *)
(* two bar-plot images, pastes them side by side and displays the result.  *)
(***************************************************************************)
EXTENDS Integers, Sequences, FiniteSets, TLC

VARIABLES
    gene,       \* args.gene, fixed at process start
    pc,         \* position of the single thread of control
    tick,       \* number of calls of main() made by the while loop
    session,    \* the webdriver session of the current call: "none" | "open" | "closed"
    opened,     \* number of sessions opened so far (webdriver.Chrome() that returned)
    released,   \* number of driver.quit() calls so far
    result,     \* outcome of the graph-link lookup of the current call
    dev,        \* local 'dev' of main
    tissue,     \* local 'tissue' of main
    image1,     \* local 'image1' of main
    image2,     \* local 'image2' of main
    im,         \* local 'im' of main
    exc,        \* exception in flight, "none" if none
    ret,        \* return value of the last completed main()
    stdout,     \* lines printed
    shown,      \* images handed to plt.show(), in order
    log         \* history of the calls made to the collaborators

vars == <<gene, pc, tick, session, opened, released, result, dev, tissue,
          image1, image2, im, exc, ret, stdout, shown, log>>

----------------------------------------------------------------------------
(* Bounds of the model *)

MaxW == 2
MaxH == 2
MaxTicks == 2

----------------------------------------------------------------------------
(* Values *)

NoneVal == "None"
NoImage == [mode |-> "none"]
\* A response body that is no image.
Garbage == [mode |-> "garbage"]

Max(a, b) == IF a >= b THEN a ELSE b

Genes == {"Os01g0100100", "NoSuchGene"}

\* The default colour of Image.new('RGB', size): color=0, black.
DefaultFill_White == <<255, 255, 255>>

DefaultFill == <<0, 0, 0>>

Modes == {"RGB", "L"}
Tags == {0, 7}

\* A decoded image: mode, size (width, height) and one pixel per coordinate.
\* The pixel content is a test pattern that tells coordinates apart; with
\* tag 0 the pixel at (0,0) is black.
TestImage(mode, w, h, tag) ==
    [mode |-> mode,
     size |-> <<w, h>>,
     px   |-> [p \in (0 .. w - 1) \X (0 .. h - 1) |->
                 IF mode = "RGB"
                 THEN <<tag, p[1] % 256, p[2] % 256>>
                 ELSE (tag + p[1] + 16 * p[2]) % 256]]

SmallImages ==
    {TestImage(m, w, h, t) : m \in Modes, w \in 1 .. MaxW, h \in 1 .. MaxH, t \in Tags}

\* The two rasters of the 100x50 / 80x70 scenario.
ScenarioA == TestImage("RGB", 100, 50, 7)
ScenarioB == TestImage("RGB", 80, 70, 7)

Images == SmallImages \cup {ScenarioA, ScenarioB}

Width(img) == img.size[1]
Height(img) == img.size[2]

----------------------------------------------------------------------------
(* Image Compositor: concatenate_images_horizontally and the PIL calls it makes *)

\* Image.new(mode, size): every pixel at the default colour.
ImageNew(mode, size) ==
    [mode |-> mode,
     size |-> size,
     px   |-> [p \in (0 .. size[1] - 1) \X (0 .. size[2] - 1) |-> DefaultFill]]

\* The conversion paste applies to a source whose mode differs from the
\* destination's 'RGB': a grey level v becomes (v, v, v).
ConvertToRGB(mode, pixel) ==
    IF mode = "RGB" THEN pixel ELSE <<pixel, pixel, pixel>>

\* Whether destination coordinate p lies in the box of src pasted at 'at'.
InBox(p, src, at) ==
    /\ at[1] <= p[1] /\ p[1] < at[1] + Width(src)
    /\ at[2] <= p[2] /\ p[2] < at[2] + Height(src)

\* dst.paste(src, at): the box is src's size at offset 'at', clipped to dst.
ImagePaste(dst, src, at) ==
    [dst EXCEPT !.px =
        [p \in DOMAIN dst.px |->
            IF InBox(p, src, at)
            THEN ConvertToRGB(src.mode, src.px[<<p[1] - at[1], p[2] - at[2]>>])
            ELSE dst.px[p]]]

NewImageSize_FirstHeight(i1, i2) == <<Width(i1) + Width(i2), Height(i1)>>

NewImageSize(i1, i2) == <<Width(i1) + Width(i2), Max(Height(i1), Height(i2))>>

FirstOffset(i1, i2) == <<0, 0>>

SecondOffset_OtherWidth(i1, i2) == <<Width(i2), 0>>

SecondOffset(i1, i2) == <<Width(i1), 0>>

concatenate_images_horizontally(i1, i2) ==
    LET new_image == ImageNew("RGB", NewImageSize(i1, i2))
        pasted1   == ImagePaste(new_image, i1, FirstOffset(i1, i2))
    IN  ImagePaste(pasted1, i2, SecondOffset(i1, i2))

----------------------------------------------------------------------------
(* Image Fetcher: download_image *)

\* What the HTTP server may answer: an image body with status 200, or a body
\* that is no image with any status.
Statuses == {200, 304, 404}

Responses ==
    {[status |-> 200, body |-> b] : b \in Images}
        \cup {[status |-> s, body |-> Garbage] : s \in Statuses}

\* response.raise_for_status(): raises for a 4xx or 5xx status only.
RaisesForStatus(status) == 400 <= status /\ status < 600

\* download_image(url) given the server's response: the exception raised
\* ("none" if none) and the image returned.
download_image(response) ==
    IF RaisesForStatus(response.status)
    THEN [exc |-> "HTTPError", image |-> NoImage]
    ELSE IF response.body.mode = Garbage.mode
    THEN [exc |-> "UnidentifiedImageError", image |-> NoImage]
    ELSE [exc |-> "none", image |-> response.body]

----------------------------------------------------------------------------
(* Search Driver and Loop Controller: main and the __main__ loop *)

Pre == "https://ricexpro.dna.affrc.go.jp/RXP_4001/"

\* Values the site may give the two attributes of the graph-link element;
\* get_attribute returns None for a missing attribute.
DevAttrs == {"dev_bar.png", NoneVal}
TissueAttrs == {"tissue_bar.png", NoneVal}

\* Python truth value of what main returns.
Truthy(v) == v \notin {NoneVal, "False"}

\* What main returns on the no-hit path and when it falls off its end.
NoHitReturn_True == "True"

NoHitReturn == "False"
FallThroughReturn == NoneVal

Event(ev, arg) == [tick |-> tick, ev |-> ev, arg |-> arg]

\* An exception raised inside the try block: control goes to the finally clause.
Raise(e) ==
    /\ exc' = e
    /\ pc' = "finally"

Init ==
    /\ gene \in Genes
    /\ pc = "loop"
    /\ tick = 0
    /\ session = "none"
    /\ opened = 0
    /\ released = 0
    /\ result = "none"
    /\ dev = NoneVal
    /\ tissue = NoneVal
    /\ image1 = NoImage
    /\ image2 = NoImage
    /\ im = NoImage
    /\ exc = "none"
    /\ ret = NoneVal
    /\ stdout = <<>>
    /\ shown = <<>>
    /\ log = <<>>

\* while True: main(args.gene) is entered; driver = webdriver.Chrome() is
\* outside the try block, so its failure leaves main at once.
OpenSession ==
    /\ pc = "loop"
    /\ tick < MaxTicks
    /\ tick' = tick + 1
    /\ result' = "none"
    /\ \/ /\ session' = "open"
          /\ opened' = opened + 1
          /\ log' = Append(log, [tick |-> tick + 1, ev |-> "open", arg |-> NoneVal])
          /\ pc' = "get"
          /\ exc' = exc
       \/ /\ exc' = "WebDriverException"
          /\ pc' = "crashed"
          /\ UNCHANGED <<session, opened, log>>
    /\ UNCHANGED <<gene, released, dev, tissue, image1, image2, im, ret, stdout, shown>>

\* driver.get(...)
Navigate ==
    /\ pc = "get"
    /\ \/ /\ pc' = "find_box" /\ exc' = exc
       \/ Raise("WebDriverException")
    /\ UNCHANGED <<gene, tick, session, opened, released, result, dev, tissue,
                   image1, image2, im, ret, stdout, shown, log>>

\* Mutant: the lookup of the search box inside the inner try, its failure
\* taken for "no hits".
FindSearchBox_Caught ==
    /\ pc = "find_box"
    /\ \/ /\ pc' = "find_button"
          /\ UNCHANGED <<result, stdout, ret>>
       \/ /\ result' = "NotFound"
          /\ stdout' = Append(stdout, <<"No hits for", gene>>)
          /\ ret' = "False"
          /\ pc' = "finally"
    /\ UNCHANGED <<gene, tick, session, opened, released, dev, tissue,
                   image1, image2, im, exc, shown, log>>

\* search_box = driver.find_element(By.NAME, "keyword")
FindSearchBox ==
    /\ pc = "find_box"
    /\ \/ /\ pc' = "find_button" /\ exc' = exc
       \/ Raise("NoSuchElementException")
    /\ UNCHANGED <<gene, tick, session, opened, released, result, dev, tissue,
                   image1, image2, im, ret, stdout, shown, log>>

\* search_button = driver.find_element(By.XPATH, ...)
FindSearchButton ==
    /\ pc = "find_button"
    /\ \/ /\ pc' = "submit" /\ exc' = exc
       \/ Raise("NoSuchElementException")
    /\ UNCHANGED <<gene, tick, session, opened, released, result, dev, tissue,
                   image1, image2, im, ret, stdout, shown, log>>

\* search_box.send_keys(args.gene); search_button.click()
Submit ==
    /\ pc = "submit"
    /\ log' = Append(log, Event("search", gene))
    /\ pc' = "find_graph"
    /\ UNCHANGED <<gene, tick, session, opened, released, result, dev, tissue,
                   image1, image2, im, exc, ret, stdout, shown>>

\* The inner try: the graph-link element is there, or NoSuchElementException
\* is caught, the notice printed and False returned (through the finally).
NoHit ==
    /\ result' = "NotFound"
    /\ stdout' = Append(stdout, <<"No hits for", gene>>)
    /\ ret' = NoHitReturn
    /\ pc' = "finally"
    /\ UNCHANGED <<dev, tissue>>

FindGraphLink ==
    /\ pc = "find_graph"
    /\ \/ \E d \in DevAttrs, t \in TissueAttrs :
            /\ result' = "Found"
            /\ dev' = d
            /\ tissue' = t
            /\ pc' = "urls"
            /\ UNCHANGED <<stdout, ret>>
       \/ NoHit
    /\ UNCHANGED <<gene, tick, session, opened, released, image1, image2, im,
                   exc, shown, log>>

\* dev = pre + element.get_attribute("dev_barimg"), the same for tissue:
\* str + None raises TypeError.
BuildUrls ==
    /\ pc = "urls"
    /\ IF dev = NoneVal
       THEN Raise("TypeError") /\ UNCHANGED <<dev, tissue>>
       ELSE IF tissue = NoneVal
       THEN Raise("TypeError") /\ dev' = Pre \o dev /\ UNCHANGED tissue
       ELSE /\ dev' = Pre \o dev
            /\ tissue' = Pre \o tissue
            /\ pc' = "download1"
            /\ exc' = exc
    /\ UNCHANGED <<gene, tick, session, opened, released, result,
                   image1, image2, im, ret, stdout, shown, log>>

\* Mutant: the first download takes the tissue URL.
Download1_Swapped ==
    /\ pc = "download1"
    /\ \E response \in Responses :
         LET r == download_image(response)
         IN  IF r.exc = "none"
             THEN /\ image1' = r.image
                  /\ log' = Append(log, Event("fetch", tissue))
                  /\ pc' = "download2"
                  /\ exc' = exc
             ELSE /\ Raise(r.exc)
                  /\ log' = log \o <<Event("fetch", tissue), Event("fetch_failed", tissue)>>
                  /\ UNCHANGED image1
    /\ UNCHANGED <<gene, tick, session, opened, released, result, dev, tissue,
                   image2, im, ret, stdout, shown>>

\* image1 = download_image(dev)
Download1 ==
    /\ pc = "download1"
    /\ \E response \in Responses :
         LET r == download_image(response)
         IN  IF r.exc = "none"
             THEN /\ image1' = r.image
                  /\ log' = Append(log, Event("fetch", dev))
                  /\ pc' = "download2"
                  /\ exc' = exc
             ELSE /\ Raise(r.exc)
                  /\ log' = log \o <<Event("fetch", dev), Event("fetch_failed", dev)>>
                  /\ UNCHANGED image1
    /\ UNCHANGED <<gene, tick, session, opened, released, result, dev, tissue,
                   image2, im, ret, stdout, shown>>

\* Mutant: a failed second download is tried again.
Download2_Retry ==
    /\ pc = "download2"
    /\ \E response \in Responses :
         LET r == download_image(response)
         IN  IF r.exc = "none"
             THEN /\ image2' = r.image
                  /\ log' = Append(log, Event("fetch", tissue))
                  /\ pc' = "concatenate"
             ELSE /\ log' = log \o <<Event("fetch", tissue), Event("fetch_failed", tissue)>>
                  /\ pc' = IF Len(log) < 12 THEN "download2" ELSE "concatenate"
                  /\ UNCHANGED image2
    /\ UNCHANGED <<gene, tick, session, opened, released, result, dev, tissue,
                   image1, im, exc, ret, stdout, shown>>

\* image2 = download_image(tissue)
Download2 ==
    /\ pc = "download2"
    /\ \E response \in Responses :
         LET r == download_image(response)
         IN  IF r.exc = "none"
             THEN /\ image2' = r.image
                  /\ log' = Append(log, Event("fetch", tissue))
                  /\ pc' = "concatenate"
                  /\ exc' = exc
             ELSE /\ Raise(r.exc)
                  /\ log' = log \o <<Event("fetch", tissue), Event("fetch_failed", tissue)>>
                  /\ UNCHANGED image2
    /\ UNCHANGED <<gene, tick, session, opened, released, result, dev, tissue,
                   image1, im, ret, stdout, shown>>

\* im = concatenate_images_horizontally(image1, image2)
Concatenate ==
    /\ pc = "concatenate"
    /\ im' = concatenate_images_horizontally(image1, image2)
    /\ log' = Append(log, Event("composite", NoneVal))
    /\ pc' = "display"
    /\ UNCHANGED <<gene, tick, session, opened, released, result, dev, tissue,
                   image1, image2, exc, ret, stdout, shown>>

\* display_image(im), then main falls off its end (through the finally).
Display ==
    /\ pc = "display"
    /\ log' = Append(log, Event("display", NoneVal))
    /\ \/ /\ shown' = Append(shown, im)
          /\ ret' = FallThroughReturn
          /\ pc' = "finally"
          /\ exc' = exc
       \/ /\ Raise("DisplayError")
          /\ UNCHANGED <<shown, ret>>
    /\ UNCHANGED <<gene, tick, session, opened, released, result, dev, tissue,
                   image1, image2, im, stdout>>

\* Mutant: driver.quit() as main's last statement, with no try/finally: an
\* exception passes it by.
Finally_SkippedByException ==
    /\ pc = "finally"
    /\ session' = IF exc = "none" THEN "closed" ELSE session
    /\ released' = IF exc = "none" THEN released + 1 ELSE released
    /\ log' = IF exc = "none" THEN Append(log, Event("quit", NoneVal)) ELSE log
    /\ pc' = IF exc = "none" THEN "returned" ELSE "crashed"
    /\ dev' = NoneVal
    /\ tissue' = NoneVal
    /\ image1' = NoImage
    /\ image2' = NoImage
    /\ im' = NoImage
    /\ UNCHANGED <<gene, tick, opened, result, exc, ret, stdout, shown>>

\* finally: driver.quit(); then main returns, or the exception goes on
\* through the while loop and ends the process.  main's locals are gone.
Finally ==
    /\ pc = "finally"
    /\ session' = "closed"
    /\ released' = released + 1
    /\ log' = Append(log, Event("quit", NoneVal))
    /\ pc' = IF exc = "none" THEN "returned" ELSE "crashed"
    /\ dev' = NoneVal
    /\ tissue' = NoneVal
    /\ image1' = NoImage
    /\ image2' = NoImage
    /\ im' = NoImage
    /\ UNCHANGED <<gene, tick, opened, result, exc, ret, stdout, shown>>

\* if not main(args.gene): break
LoopTest ==
    /\ pc = "returned"
    /\ pc' = IF Truthy(ret) THEN "loop" ELSE "done"
    /\ log' = Append(log, Event("return", ret))
    /\ UNCHANGED <<gene, tick, session, opened, released, result, dev, tissue,
                   image1, image2, im, exc, ret, stdout, shown>>

Next ==
    \/ OpenSession
    \/ Navigate
    \/ FindSearchBox
    \/ FindSearchButton
    \/ Submit
    \/ FindGraphLink
    \/ BuildUrls
    \/ Download1
    \/ Download2
    \/ Concatenate
    \/ Display
    \/ Finally
    \/ LoopTest

Spec == Init /\ [][Next]_vars

\* The Loop Controller's state.
Controller ==
    IF pc = "done" THEN "STOPPED"
    ELSE IF pc = "crashed" THEN "FAILED"
    ELSE "RUNNING"

----------------------------------------------------------------------------
(* Properties *)

LogIndex == 1 .. Len(log)

\* The calls of tick t to the Image Fetcher, the Compositor and the Display Sink.
PipelineEvents(t) ==
    SelectSeq(log, LAMBDA e : e.tick = t /\ e.ev \in {"fetch", "composite", "display"})

IsPrefix(s, t) == Len(s) <= Len(t) /\ \A i \in 1 .. Len(s) : s[i] = t[i]

\* The order of a tick that found a hit.
FoundTickOrder ==
    << [ev |-> "fetch", arg |-> Pre \o "dev_bar.png"],
       [ev |-> "fetch", arg |-> Pre \o "tissue_bar.png"],
       [ev |-> "composite", arg |-> NoneVal],
       [ev |-> "display", arg |-> NoneVal] >>

Untick(s) == [i \in 1 .. Len(s) |-> [ev |-> s[i].ev, arg |-> s[i].arg]]

\* The RGB colour of the pixel of img at q: the pixel itself in an RGB
\* raster, the grey level on all three channels otherwise.
Colour(img, q) ==
    IF img.mode = "RGB" THEN img.px[q] ELSE <<img.px[q], img.px[q], img.px[q]>>

\* The coordinates of the composite covered by neither input.
Uncovered ==
    {p \in DOMAIN im.px :
        /\ ~(p[1] < Width(image1) /\ p[2] < Height(image1))
        /\ ~(p[1] >= Width(image1) /\ p[2] < Height(image2))}

Composited == pc \in {"display", "finally"} /\ im # NoImage

\* C1 (as claimed): the loop leaves RUNNING for STOPPED only by a NotFound
\* result, never after a tick that found a hit and completed.
C1_StopsOnlyOnNotFound ==
    Controller = "STOPPED" => result = "NotFound"

\* C2: when the lookup of the result element finds nothing, the "no hits"
\* notice is printed, the tick goes through finally and return to the end of
\* the loop, and no fetch, composite or display call is made in that tick.
C2_NoHitStopsWithoutFetch ==
    result = "NotFound" =>
        /\ stdout = << <<"No hits for", gene>> >>
        /\ exc = "none"
        /\ pc \in {"finally", "returned", "done"}
        /\ PipelineEvents(tick) = <<>>
        /\ shown = <<>>
        /\ \A i \in LogIndex :
             log[i].ev = "return" /\ log[i].arg = "False" =>
                 Controller = "STOPPED" /\ i = Len(log)

C2_Witness ==
    /\ result = "NotFound"
    /\ Controller = "STOPPED"
    /\ stdout # <<>>

\* C3: once the run has ended (loop left, or exception propagated), every
\* session that was opened has been released.
C3_SessionReleasedAtExit ==
    pc \in {"done", "crashed"} =>
        /\ session # "open"
        /\ released = opened

C3_Witness ==
    /\ pc = "crashed"
    /\ exc = "HTTPError"
    /\ opened = 1
    /\ released = 1

\* C4 (as claimed): the session is released exactly once, at process exit:
\* no release happens while the controller is still RUNNING (before the
\* loop's exit test of the last tick), and one session serves the whole run.
C4_ReleasedOnlyAtExit ==
    /\ released > 0 => Controller # "RUNNING"
    /\ opened <= 1
    /\ released <= 1

\* C5: in a tick that found a hit the calls are, in this order and once
\* each: fetch of the dev URL, fetch of the tissue URL, composite, display;
\* a tick's calls never follow a later tick's.
C5_FoundTickOrder ==
    /\ \A t \in 1 .. tick : IsPrefix(Untick(PipelineEvents(t)), FoundTickOrder)
    /\ \A i, j \in LogIndex : i < j => log[i].tick <= log[j].tick
    /\ \A t \in 1 .. tick :
         Cardinality({i \in LogIndex : log[i].tick = t /\ log[i].ev = "search"}) <= 1
    /\ (pc = "returned" /\ result = "Found") =>
           /\ Untick(PipelineEvents(tick)) = FoundTickOrder
           /\ Len(shown) = tick

C5_Witness ==
    /\ pc = "returned"
    /\ result = "Found"
    /\ Len(PipelineEvents(tick)) = 4
    /\ Len(shown) = 1

\* C6: the composite is as wide as both inputs together and as high as the
\* higher of the two.
C6_OutputSize ==
    Composited =>
        /\ Width(im) = Width(image1) + Width(image2)
        /\ Height(im) >= Height(image1)
        /\ Height(im) >= Height(image2)
        /\ Height(im) \in {Height(image1), Height(image2)}
        /\ DOMAIN im.px = (0 .. Width(im) - 1) \X (0 .. Height(im) - 1)

C6_Witness ==
    /\ Composited
    /\ Height(image1) < Height(image2)
    /\ Width(image1) > Width(image2)

\* C7: the composite's pixel at (x, y) is image1's pixel at (x, y) where
\* x < width1 and y < height1, and image2's pixel at (x - width1, y) where
\* x >= width1 and y < height2 (the pixel itself for an RGB input, its RGB
\* colour for a grey one); so the second paste leaves image1's region alone.
C7_PixelContent ==
    Composited =>
        \A p \in DOMAIN im.px :
            /\ (p[1] < Width(image1) /\ p[2] < Height(image1)) =>
                   im.px[p] = Colour(image1, p)
            /\ (p[1] >= Width(image1) /\ p[2] < Height(image2)) =>
                   im.px[p] = Colour(image2, <<p[1] - Width(image1), p[2]>>)

C7_Witness ==
    /\ Composited
    /\ image1.mode = "RGB"
    /\ image2.mode = "RGB"
    /\ Width(image1) = 2
    /\ Width(image2) = 1
    /\ Height(image1) = 2
    /\ im.px[<<1, 1>>] = image1.px[<<1, 1>>]
    /\ im.px[<<2, 0>>] = image2.px[<<0, 0>>]
    /\ image1.px[<<1, 1>>] # image2.px[<<0, 0>>]

IsScenario == Composited /\ image1 = ScenarioA /\ image2 = ScenarioB

\* C8 (as claimed): for 100x50 and 80x70 inputs the composite is 180x70 and
\* the default-filled gap below image1's region is 80 wide and 20 high.
C8_ScenarioGap80 ==
    IsScenario =>
        /\ im.size = <<180, 70>>
        /\ Uncovered = (0 .. 79) \X (50 .. 69)
        /\ \A p \in Uncovered : im.px[p] = <<0, 0, 0>>

\* C8 (amended): for 100x50 and 80x70 inputs the composite is 180x70 and
\* the default-filled gap below image1's region is 100 wide (image1's
\* width) and 20 high; in general every pixel covered by neither input has
\* the default fill value, black, and the two regions and the gap
\* partition the composite.
C8_ScenarioGap100 ==
    /\ IsScenario =>
         /\ im.size = <<180, 70>>
         /\ Uncovered = (0 .. 99) \X (50 .. 69)
    /\ Composited =>
         /\ \A p \in Uncovered : im.px[p] = <<0, 0, 0>>
         /\ Cardinality(Uncovered) =
                Width(im) * Height(im) - Width(image1) * Height(image1)
                                       - Width(image2) * Height(image2)

C8_Witness ==
    /\ IsScenario
    /\ Cardinality(Uncovered) = 2000
    /\ im.px[<<99, 69>>] = <<0, 0, 0>>

\* C9: a failed fetch is the last call of the run but for the release of
\* the session: no retry, no other fetch, no composite, no display, no
\* notice, no further tick; the exception ends the run.
C9_FetchFailureEndsRun ==
    /\ \A i \in LogIndex :
         log[i].ev = "fetch_failed" =>
             /\ exc \in {"HTTPError", "UnidentifiedImageError"}
             /\ \A j \in LogIndex : j > i => log[j].ev = "quit" /\ j = i + 1
    /\ exc \in {"HTTPError", "UnidentifiedImageError"} =>
         /\ pc \in {"finally", "crashed"}
         /\ stdout = <<>>
         /\ shown = <<>>
         /\ \E i \in LogIndex : log[i].ev = "fetch_failed"
         /\ \A i \in LogIndex : log[i].ev \notin {"composite", "display", "return"}
         /\ Len(PipelineEvents(tick)) <= 2

C9_Witness ==
    /\ pc = "crashed"
    /\ exc = "UnidentifiedImageError"
    /\ Len(PipelineEvents(tick)) = 1
    /\ released = 1

\* C10: a missing search field or submit control is not taken for "no
\* hits": nothing is printed, the result is not NotFound, the loop does not
\* end as STOPPED; and the notice is printed only after a submitted search.
C10_DriverErrorNotRecovered ==
    /\ exc = "NoSuchElementException" =>
         /\ stdout = <<>>
         /\ result = "none"
         /\ pc \in {"finally", "crashed"}
    /\ stdout # <<>> =>
         /\ result = "NotFound"
         /\ \E i \in LogIndex : log[i].tick = tick /\ log[i].ev = "search"
    /\ Controller = "STOPPED" => exc = "none"

C10_Witness ==
    /\ pc = "crashed"
    /\ exc = "NoSuchElementException"
    /\ stdout = <<>>
    /\ \A i \in LogIndex : log[i].ev # "search"

====
